---- MODULE Spec2Model ----
(***************************************************************************)
(* Model of the travis RPC adapter (modules/vm/ethereum/api.go) and of the *)
(* node initialisation command (commands/init).                            *)
(*                                                                         *)
(* Five independent parts, each with its own specification:                *)
(*   Spec      one caller of the stake submission methods, all inputs      *)
(*   SpecConc  two concurrent callers of the stake submission methods      *)
(*   SpecQuery the stake query methods                                     *)
(*   SpecCmt   block / transaction lookup                                  *)
(*   SpecInit  the init command on a file system                           *)
(***************************************************************************)
EXTENDS Integers, Sequences, FiniteSets, TLC

VARIABLES
    chainID,      \* Backend.chainID ("" until tendermint has started)
    seqStore,     \* nonce module state behind ABCIQuery: address -> uint32 or <<>>
    unlocked,     \* accounts the keystore currently holds unlocked
    unlockRes,    \* what the last UnlockAccount call returned
    call,         \* per RPC caller: the position and locals of its stake call
    nCalls,       \* number of stake calls started so far
    qHeight,      \* latest block height of the node answering ABCI queries
    qCall,        \* the last stake query call: its inputs, the response, the return
    blocks,       \* the block store: the blocks by height
    cCall,        \* the last block / transaction lookup call
    privValFile,  \* the private validator file: <<>> or <<private key, public key>>
    genFile,      \* the genesis file
    chainDb,      \* whether vm/chaindata holds the genesis block
    keystore,     \* the files of <datadir>/keystore
    nextKey,      \* the next key the key generator will produce
    iRun          \* the last run of the init command

stakeVars == <<chainID, seqStore, unlocked, unlockRes, call, nCalls>>

queryVars == <<qHeight, qCall>>

cmtVars == <<blocks, cCall>>

initVars == <<privValFile, genFile, chainDb, keystore, nextKey, iRun>>

vars == <<stakeVars, queryVars, cmtVars, initVars>>

(***************************************************************************)
(* Bounds                                                                  *)
(***************************************************************************)
MaxCalls == 2

(***************************************************************************)
(* uint32 as two 16-bit limbs <<hi, lo>>; <<>> is "no value"               *)
(***************************************************************************)
Limb == 65536

None == <<>>

U32(n) == <<n \div Limb, n % Limb>>

MaxU32 == <<Limb - 1, Limb - 1>>

\* x + 1 over the naturals (the high limb may leave the 16-bit range)
MathSucc(x) == IF x[2] = Limb - 1 THEN <<x[1] + 1, 0>> ELSE <<x[1], x[2] + 1>>

\* uint32 addition of one: sequence = sequence + 1
U32Add1(x) == LET m == MathSucc(x) IN <<m[1] % Limb, m[2]>>


Zero == U32(0)

(***************************************************************************)
(* go-wire: a uint32 is written as four big-endian bytes                   *)
(***************************************************************************)
BinaryBytes(x) == <<x[1] \div 256, x[1] % 256, x[2] \div 256, x[2] % 256>>

\* wire.ReadBinaryBytes(value, sequence): the decoded value, or an error when
\* the bytes are not exactly one uint32
ReadBinaryBytes(bs) ==
    IF Len(bs) = 4
    THEN [ok |-> TRUE, val |-> <<bs[1] * 256 + bs[2], bs[3] * 256 + bs[4]>>]
    ELSE [ok |-> FALSE, val |-> Zero]

(***************************************************************************)
(* Accounts and inputs of the stake submission methods                     *)
(***************************************************************************)
Callers == {1, 2}

Methods == {"DeclareCandidacy", "ProposeSlot", "AcceptSlot", "WithdrawSlot", "CancelSlot"}

\* the methods whose prepare step parses args.PubKey with stake.GetPubKey
PubKeyMethods == {"DeclareCandidacy", "ProposeSlot", "CancelSlot"}

FromStrings == {"", "0xA", "0xB"}

Addresses == {"0", "A", "B"}

\* common.HexToAddress: the empty string gives the zero address
HexToAddress(s) == CASE s = "" -> "0" [] s = "0xA" -> "A" [] s = "0xB" -> "B"

\* the accounts the account manager has a wallet for
KeystoreAccounts == {"A"}

PubKeyStrings == {"pk", "bad"}

\* stake.GetPubKey succeeds on a well-formed key string
GetPubKeyOK(pk) == pk = "pk"

ChainName == "travis"

\* getSignerAct: auth.SigPerm(HexToAddress(address).Bytes())
getSignerAct(address) == [app |-> "sigs", address |-> HexToAddress(address)]

NoTx == [kind |-> "none", nonce |-> None, signers |-> <<>>, chain |-> "", sig |-> ""]

IdleCall ==
    [pc |-> "idle", method |-> "none", from |-> "", pubKey |-> "pk",
     sequence |-> Zero, payloadOK |-> TRUE, defaulted |-> FALSE,
     queried |-> FALSE, seen |-> None, readAfter |-> {},
     tx |-> NoTx, ok |-> {}, failed |-> "none",
     err |-> "nil", result |-> "nil", nBroadcast |-> 0]

\* return nil, err from the step that failed
Fail(cl, step, e) ==
    [cl EXCEPT !.pc = "done", !.failed = step, !.err = e, !.result = "nil"]

(***************************************************************************)
(* The stake submission methods, one action per step that touches shared   *)
(* state (the ABCI query, the backend's chain id, the account manager, the *)
(* broadcast); the pure code between two such steps belongs to the earlier *)
(* action.                                                                 *)
(***************************************************************************)

\* ABCIQuery("/key", seqKey): the stored bytes of the signer's sequence
QueryValue(stored) == IF stored = None THEN <<>> ELSE BinaryBytes(stored)

\* getSequence that returns before decoding the stored value
getSequenceNoDecode(value, sequence) == [ok |-> TRUE, val |-> sequence]

\* getSequence after a successful query: an empty value leaves *sequence alone
getSequence(value, sequence) ==
    IF Len(value) = 0
    THEN [ok |-> TRUE, val |-> sequence]
    ELSE ReadBinaryBytes(value)

\* the default sequence without the increment
DefaultSequenceNoInc(sequence) == sequence

\* sequence = sequence + 1 on a uint32
DefaultSequence(sequence) == U32Add1(sequence)

\* getChainID without the emptiness check
getChainIDUnchecked(id) == [err |-> "nil", id |-> id]

\* getChainID: an empty backend chain id is an error
getChainID(id) ==
    IF id = "" THEN [err |-> "ErrEmptyChainID", id |-> ""] ELSE [err |-> "nil", id |-> id]

\* tx.ValidateBasic of the wrapped transaction: the nonce layer rejects
\* sequence 0, the stake payload is checked by its own rules
ValidateBasic(tx, payloadOK) ==
    IF tx.nonce = Zero THEN "ErrZeroSequence"
    ELSE IF ~payloadOK THEN "ErrInvalidTx"
    ELSE "nil"

\* prepareXxxTx up to the first read of shared state
Prepare(m, from, pk, seq, pok) ==
    LET cl == [IdleCall EXCEPT !.method = m, !.from = from, !.pubKey = pk,
                               !.sequence = seq, !.payloadOK = pok]
        signers == <<getSignerAct(from)>>
        built == [cl EXCEPT !.tx = [NoTx EXCEPT !.kind = m, !.signers = signers],
                            !.ok = IF m \in PubKeyMethods THEN {"pubkey"} ELSE {}]
    IN  IF m \in PubKeyMethods /\ ~GetPubKeyOK(pk)
        THEN Fail(cl, "pubkey", "ErrPubKey")
        ELSE IF seq = Zero
             THEN [built EXCEPT !.pc = "getSequence", !.defaulted = TRUE]
             ELSE [built EXCEPT !.pc = "getChainID", !.tx.nonce = seq]

Submit(c, m, from, pk, seq, pok) ==
    /\ call[c].pc \in {"idle", "done", "panicked"}
    /\ nCalls < MaxCalls
    /\ nCalls' = nCalls + 1
    /\ call' = [d \in Callers |->
                    IF d = c THEN Prepare(m, from, pk, seq, pok)
                    ELSE [call[d] EXCEPT !.readAfter = @ \ {c}]]
    /\ UNCHANGED <<queryVars, cmtVars, initVars>>
    /\ UNCHANGED <<chainID, seqStore, unlocked, unlockRes>>

\* the callers whose current call has had its transaction committed
Committed(c) == {d \in Callers \ {c} : call[d].pc = "done" /\ call[d].result = "CommitOK"}

\* wrapAndSignTx, default sequence branch
SequenceStep(cl, stored, rpcOK, after) ==
    LET q == [cl EXCEPT !.queried = TRUE]
        r == getSequence(QueryValue(stored), cl.sequence)
    IN  IF ~rpcOK THEN Fail(q, "sequence", "ErrRPC")
        ELSE IF ~r.ok THEN Fail(q, "sequence", "ErrWire")
        ELSE [q EXCEPT !.seen = stored, !.readAfter = after,
                       !.sequence = DefaultSequence(r.val),
                       !.tx.nonce = DefaultSequence(r.val),
                       !.ok = @ \cup {"sequence"}, !.pc = "getChainID"]

GetSequence(c, rpcOK) ==
    /\ call[c].pc = "getSequence"
    /\ call' = [call EXCEPT ![c] =
                    SequenceStep(call[c], seqStore[call[c].tx.signers[1].address],
                                 rpcOK, Committed(c))]
    /\ UNCHANGED <<queryVars, cmtVars, initVars>>
    /\ UNCHANGED <<chainID, seqStore, unlocked, unlockRes, nCalls>>

\* wrapAndSignTx: chain id lookup, base.NewChainTx, auth.NewSig
ChainStep(cl, id) ==
    LET r == getChainID(id)
    IN  IF r.err # "nil" THEN Fail(cl, "chainid", r.err)
        ELSE [cl EXCEPT !.tx.chain = r.id, !.ok = @ \cup {"chainid"}, !.pc = "signTx"]

WrapChain(c) ==
    /\ call[c].pc = "getChainID"
    /\ call' = [call EXCEPT ![c] = ChainStep(call[c], chainID)]
    /\ UNCHANGED <<queryVars, cmtVars, initVars>>
    /\ UNCHANGED <<chainID, seqStore, unlocked, unlockRes, nCalls>>

\* sign: am.Find's error is dropped, so an unknown account leaves a nil wallet
\* and wallet.SignTx is a call on a nil interface
sign(cl, accounts, open) ==
    LET addr == HexToAddress(cl.from)
    IN  IF addr \notin accounts
        THEN [cl EXCEPT !.pc = "panicked", !.failed = "sign"]
        ELSE IF addr \notin open
        THEN Fail(cl, "sign", "ErrLocked")
        ELSE [cl EXCEPT !.tx.sig = addr, !.ok = @ \cup {"sign"}, !.pc = "broadcast"]

\* signTx: client-side validation, the address check, then sign
signTx(cl, accounts, open) ==
    LET v == ValidateBasic(cl.tx, cl.payloadOK)
        valid == [cl EXCEPT !.ok = @ \cup {"validate"}]
    IN  IF v # "nil" THEN Fail(cl, "validate", v)
        ELSE IF cl.from = "" THEN Fail(valid, "sign", "ErrAddressRequired")
        ELSE sign(valid, accounts, open)

SignTx(c) ==
    /\ call[c].pc = "signTx"
    /\ call' = [call EXCEPT ![c] = signTx(call[c], KeystoreAccounts, unlocked)]
    /\ UNCHANGED <<queryVars, cmtVars, initVars>>
    /\ UNCHANGED <<chainID, seqStore, unlocked, unlockRes, nCalls>>

\* the nonce check of the application on delivery: the next sequence only
Accepts(stored, nonce) ==
    /\ nonce # Zero
    /\ nonce = U32Add1(IF stored = None THEN Zero ELSE stored)

\* broadcastTx: localClient.BroadcastTxCommit, whose result is returned as is
BroadcastTx(c, rpcOK) ==
    /\ call[c].pc = "broadcast"
    /\ LET cl == call[c]
           addr == cl.tx.signers[1].address
           sent == [cl EXCEPT !.nBroadcast = @ + 1, !.pc = "done"]
       IN  IF ~rpcOK
           THEN /\ call' = [call EXCEPT ![c] = [sent EXCEPT !.err = "ErrRPC"]]
                /\ UNCHANGED seqStore
           ELSE IF Accepts(seqStore[addr], cl.tx.nonce)
           THEN /\ call' = [call EXCEPT ![c] = [sent EXCEPT !.result = "CommitOK"]]
                /\ seqStore' = [seqStore EXCEPT ![addr] = cl.tx.nonce]
           ELSE /\ call' = [call EXCEPT ![c] = [sent EXCEPT !.result = "CommitRejected"]]
                /\ UNCHANGED seqStore
    /\ UNCHANGED <<queryVars, cmtVars, initVars>>
    /\ UNCHANGED <<chainID, unlocked, unlockRes, nCalls>>

Durations == {"nil", "ok", "tooLarge"}

\* UnlockAccount: the duration check, then keystore.TimedUnlock
UnlockAccount(addr, passwordOK, duration) ==
    /\ IF duration = "tooLarge"
       THEN unlockRes' = "ErrDurationTooLarge" /\ UNCHANGED unlocked
       ELSE IF addr \in KeystoreAccounts /\ passwordOK
       THEN unlockRes' = "true" /\ unlocked' = unlocked \cup {addr}
       ELSE unlockRes' = "ErrUnlock" /\ UNCHANGED unlocked
    /\ UNCHANGED <<queryVars, cmtVars, initVars>>
    /\ UNCHANGED <<chainID, seqStore, call, nCalls>>

\* the timer of TimedUnlock drops the key again
UnlockExpire(addr) ==
    /\ addr \in unlocked
    /\ unlocked' = unlocked \ {addr}
    /\ UNCHANGED <<queryVars, cmtVars, initVars>>
    /\ UNCHANGED <<chainID, seqStore, unlockRes, call, nCalls>>

\* the consensus layer finishes starting and the backend learns the chain id
TendermintStarted ==
    /\ chainID = ""
    /\ chainID' = ChainName
    /\ UNCHANGED <<queryVars, cmtVars, initVars>>
    /\ UNCHANGED <<seqStore, unlocked, unlockRes, call, nCalls>>

(***************************************************************************)
(* The stake query methods                                                 *)
(***************************************************************************)
MaxHeight == 3

QueryMethods == {"QueryValidators", "QueryValidator", "QuerySlots", "QuerySlot", "QueryDelegator"}

\* the methods that parse their string argument before querying
\* (stake.GetPubKey in QueryValidator, commands.ParseActor in QuerySlots)
ParsingQueries == {"QueryValidator", "QuerySlots"}

QueryArgs == {"good", "bad"}

\* the values the node may hold under a key
QueryValues == {<<>>, <<0>>, <<2, 5, 6>>, <<5, 6>>, <<3, 1>>}

\* go-wire reads a slice as a count followed by that many items
ReadSlice(bs) ==
    IF Len(bs) > 0 /\ bs[1] = Len(bs) - 1
    THEN [ok |-> TRUE, val |-> [items |-> SubSeq(bs, 2, Len(bs))]]
    ELSE [ok |-> FALSE, val |-> [items |-> <<>>]]

\* go-wire reads a struct field by field
ReadStruct(bs) ==
    IF Len(bs) = 2
    THEN [ok |-> TRUE, val |-> [first |-> bs[1], second |-> bs[2]]]
    ELSE [ok |-> FALSE, val |-> [first |-> 0, second |-> 0]]

\* wire.ReadBinaryBytes(bs, data) for the data type of the query method
ReadData(m, bs) ==
    IF m \in {"QueryValidator", "QuerySlot"} THEN ReadStruct(bs) ELSE ReadSlice(bs)

\* the zero value of the data variable of the query method
ZeroData(m) ==
    IF m \in {"QueryValidator", "QuerySlot"}
    THEN [first |-> 0, second |-> 0]
    ELSE [items |-> <<>>]

\* what ABCIQueryWithOptions handed back: a nil response or a value and the
\* height it was read at, with or without an error
Response(respNil, value, height, rpcErr) ==
    [isNil |-> respNil,
     value |-> IF respNil THEN <<>> ELSE value,
     height |-> IF respNil THEN 0 ELSE height,
     err |-> rpcErr]

\* get with the request height returned in place of the response's height
getRequestHeight(resp, height) ==
    IF resp.isNil
    THEN [bs |-> <<>>, h |-> height, err |-> resp.err]
    ELSE [bs |-> resp.value, h |-> height, err |-> resp.err]

\* get: the value and height of the response, or the request height when the
\* response is nil
get(resp, height) ==
    IF resp.isNil
    THEN [bs |-> <<>>, h |-> height, err |-> resp.err]
    ELSE [bs |-> resp.value, h |-> resp.height, err |-> resp.err]

\* getParsed: the client's error, the no-data error, the decoding error, or
\* the height with the decoded data
getParsed(m, resp, height) ==
    LET g == get(resp, height)
        r == ReadData(m, g.bs)
    IN  IF g.err # "nil" THEN [h |-> 0, err |-> g.err, data |-> ZeroData(m)]
        ELSE IF Len(g.bs) = 0 THEN [h |-> g.h, err |-> "ErrNoData", data |-> ZeroData(m)]
        ELSE IF ~r.ok THEN [h |-> 0, err |-> "ErrWire", data |-> ZeroData(m)]
        ELSE [h |-> g.h, err |-> "nil", data |-> r.val]

NilResult(m) == [isNil |-> TRUE, Height |-> 0, Data |-> ZeroData(m)]

NoQuery ==
    [method |-> "none", arg |-> "good", height |-> 0, queried |-> FALSE,
     resp |-> Response(TRUE, <<>>, 0, "nil"),
     result |-> NilResult("none"), err |-> "nil"]

\* QueryValidators, QueryValidator, QuerySlots, QuerySlot, QueryDelegator
QueryReturn(m, arg, height, resp) ==
    LET p == getParsed(m, resp, height)
        q == [NoQuery EXCEPT !.method = m, !.arg = arg, !.height = height,
                             !.result = NilResult(m)]
    IN  IF m \in ParsingQueries /\ arg = "bad"
        THEN [q EXCEPT !.err = "ErrParse"]
        ELSE IF p.err # "nil"
        THEN [q EXCEPT !.queried = TRUE, !.resp = resp, !.err = p.err]
        ELSE [q EXCEPT !.queried = TRUE, !.resp = resp,
                       !.result = [isNil |-> FALSE, Height |-> p.h, Data |-> p.data]]

\* the node answers a query at height 0 from its latest block
Query(m, arg, height, respNil, value, rpcErr) ==
    /\ height <= qHeight
    /\ qCall' = QueryReturn(m, arg, height,
                    Response(respNil, value, IF height = 0 THEN qHeight ELSE height, rpcErr))
    /\ UNCHANGED qHeight
    /\ UNCHANGED <<stakeVars, cmtVars, initVars>>

\* the chain commits a block
QueryNewBlock ==
    /\ qHeight < MaxHeight
    /\ qHeight' = qHeight + 1
    /\ UNCHANGED qCall
    /\ UNCHANGED <<stakeVars, cmtVars, initVars>>

QueryInit ==
    /\ qHeight = 1
    /\ qCall = NoQuery

(***************************************************************************)
(* Block and transaction lookup (CmtRPCService)                            *)
(***************************************************************************)
MaxBlocks == 2

MaxTxs == 2

\* the transactions of the block at height h holding n transactions
BlockTxs(h, n) == [i \in 1..n |-> (MaxTxs + 2) * h + i]

\* Tx.Hash(): two bytes here
Hash(tx) == <<(tx * 37) % 256, (tx * 101 + 7) % 256>>

\* a string of hexadecimal digits is a sequence of digit values; HexX is the
\* letter x of a "0x" prefix
HexX == 16

\* hex.EncodeToString: two digits per byte, high digit first
EncodeToString(bs) == [i \in 1..(2 * Len(bs)) |->
                          IF i % 2 = 1 THEN bs[(i + 1) \div 2] \div 16
                          ELSE bs[i \div 2] % 16]

\* cmn.StripHex: drops a leading "0x"
StripHex(str) ==
    IF Len(str) > 2 /\ str[1] = 0 /\ str[2] = HexX THEN SubSeq(str, 3, Len(str)) ELSE str

\* hex.DecodeString: an odd length or a character that is no digit is an error
DecodeString(str) ==
    IF Len(str) % 2 = 1 \/ (\E i \in 1..Len(str) : str[i] >= HexX)
    THEN [ok |-> FALSE, bytes |-> <<>>]
    ELSE [ok |-> TRUE,
          bytes |-> [i \in 1..(Len(str) \div 2) |-> str[2 * i - 1] * 16 + str[2 * i]]]

\* the transactions the node has indexed
IndexedTxs == UNION {{blocks[h].Txs[i] : i \in 1..Len(blocks[h].Txs)} : h \in 1..Len(blocks)}

NoLookup ==
    [op |-> "none", height |-> 0, index |-> 0, hash |-> <<>>,
     outcome |-> "none", err |-> "nil", block |-> 0, tx |-> 0, lookups |-> 0]

\* localClient.Block(&h): the heights 1..latest have a block
BlockExists(h) == h >= 1 /\ h <= Len(blocks)

\* GetTransaction: decode the stripped hash string, then localClient.Tx
GetTransactionReturn(str, cl) ==
    LET d == DecodeString(StripHex(str))
        found == {t \in IndexedTxs : Hash(t) = d.bytes}
    IN  IF ~d.ok THEN [cl EXCEPT !.outcome = "returned", !.err = "ErrHex"]
        ELSE IF found = {}
        THEN [cl EXCEPT !.outcome = "returned", !.err = "ErrTxNotFound", !.lookups = @ + 1]
        ELSE [cl EXCEPT !.outcome = "returned", !.tx = CHOOSE t \in found : TRUE,
                        !.lookups = @ + 1]

\* the index check of GetTransactionFromBlock: index >= block.Block.NumTxs
IndexRejected(index, numTxs) == index >= numTxs

\* GetTransactionFromBlock: fetch the block, check the index, take the hash of
\* block.Block.Txs[index] (an index outside the slice is a run-time panic),
\* look the transaction up by the hexadecimal form of the hash
GetTransactionFromBlockReturn(height, index) ==
    LET cl == [NoLookup EXCEPT !.op = "GetTransactionFromBlock",
                               !.height = height, !.index = index]
    IN  IF ~BlockExists(height)
        THEN [cl EXCEPT !.outcome = "returned", !.err = "ErrBlock"]
        ELSE LET b == blocks[height]
                 got == [cl EXCEPT !.block = height]
             IN  IF IndexRejected(index, b.NumTxs)
                 THEN [got EXCEPT !.outcome = "returned", !.err = "ErrNoTransaction"]
                 ELSE IF index < 0 \/ index >= Len(b.Txs)
                 THEN [got EXCEPT !.outcome = "panicked"]
                 ELSE GetTransactionReturn(EncodeToString(Hash(b.Txs[index + 1])),
                                           [got EXCEPT !.hash = EncodeToString(Hash(b.Txs[index + 1]))])

GetBlock(height) ==
    /\ cCall' = IF BlockExists(height)
                THEN [NoLookup EXCEPT !.op = "GetBlock", !.height = height,
                                      !.outcome = "returned", !.block = height]
                ELSE [NoLookup EXCEPT !.op = "GetBlock", !.height = height,
                                      !.outcome = "returned", !.err = "ErrBlock"]
    /\ UNCHANGED blocks
    /\ UNCHANGED <<stakeVars, queryVars, initVars>>

GetTransaction(str) ==
    /\ cCall' = GetTransactionReturn(str, [NoLookup EXCEPT !.op = "GetTransaction", !.hash = str])
    /\ UNCHANGED blocks
    /\ UNCHANGED <<stakeVars, queryVars, initVars>>

GetTransactionFromBlock(height, index) ==
    /\ cCall' = GetTransactionFromBlockReturn(height, index)
    /\ UNCHANGED blocks
    /\ UNCHANGED <<stakeVars, queryVars, initVars>>

\* the chain commits a block of n transactions
CmtNewBlock(n) ==
    /\ Len(blocks) < MaxBlocks
    /\ blocks' = Append(blocks, [NumTxs |-> n, Txs |-> BlockTxs(Len(blocks) + 1, n)])
    /\ UNCHANGED cCall
    /\ UNCHANGED <<stakeVars, queryVars, initVars>>

\* hash strings a caller may pass: the hash of a transaction of the first
\* block, the same with a 0x prefix, an odd-length string, an unknown hash
HashStrings ==
    {EncodeToString(Hash(BlockTxs(1, 1)[1])),
     <<0, HexX>> \o EncodeToString(Hash(BlockTxs(1, 1)[1])),
     <<1, 2, 3>>,
     EncodeToString(Hash(0))}

CmtInit ==
    /\ blocks = <<>>
    /\ cCall = NoLookup

(***************************************************************************)
(* The init command                                                        *)
(***************************************************************************)
MaxKeys == 3

\* the voting power init gives the node's validator in a new genesis file
GenesisPower == 10

\* values of the chain-id flag (its default is "local")
ChainIDFlags == {"local", "test"}

\* the public key of a private key
PubKeyOf(k) == 2 * k + 1

\* types.GenPrivValidatorFS: a fresh key pair
GenPrivValidatorFS(k) == <<k, PubKeyOf(k)>>

NoGenesis == [exists |-> FALSE, ChainID |-> "", Validators |-> <<>>]

\* the one entry of keystoreFilesMap: the file name and the bytes of its content
KeystoreNames == {"UTC--2016-10-21T22-30-03.071787745Z--7eff122b94897ea5b0e2a9abf47b86337fafebdc"}

keystoreFilesMap == [n \in KeystoreNames |-> <<123, 34, 97>>]

NoFile == [exists |-> FALSE, content |-> <<>>]

NoRun ==
    [outcome |-> "none", tmDone |-> FALSE, flag |-> "local",
     prePriv |-> <<>>, preGen |-> NoGenesis, generated |-> FALSE]

\* the private validator that is always generated, whatever the file holds
PrivValidatorAlwaysNew(file, k) == GenPrivValidatorFS(k)

\* initTendermint, private validator: load the file when it exists, generate
\* and save a new one otherwise
PrivValidator(file, k) == IF file # <<>> THEN file ELSE GenPrivValidatorFS(k)

\* the genesis document whose validator has no voting power
GenesisDocNoPower(flag, privValidator) ==
    [exists |-> TRUE, ChainID |-> flag,
     Validators |-> <<[PubKey |-> privValidator[2], Power |-> 0]>>]

\* initTendermint, genesis file: the document init writes when there is none
GenesisDoc(flag, privValidator) ==
    [exists |-> TRUE, ChainID |-> flag,
     Validators |-> <<[PubKey |-> privValidator[2], Power |-> GenesisPower]>>]

\* the keystore loop for one file: os.Create (truncating), f.Write of the
\* first `written` bytes, f.Close
SeedFile(old, content, createOK, written) ==
    IF ~createOK THEN old
    ELSE [exists |-> TRUE, content |-> SubSeq(content, 1, written)]

\* the byte counts f.Write may report for a keystore file
WriteCounts == 0..Len(keystoreFilesMap[CHOOSE n \in KeystoreNames : TRUE])

\* initFiles: initTendermint, then initEthermint. The environment decides
\* whether the genesis file can be saved (a failure panics), whether the
\* genesis block can be set up and the keystore directory made (a failure is
\* fatal), whether each keystore file can be created, how many bytes of it get
\* written, and whether it can be closed.
InitFiles(flag, saveOK, setupOK, mkdirOK, createOK, written, closeOK) ==
    /\ privValFile # <<>> \/ nextKey <= MaxKeys
    /\ LET pv == PrivValidator(privValFile, nextKey)
           gen == privValFile = <<>>
           run == [NoRun EXCEPT !.flag = flag, !.prePriv = privValFile,
                                !.preGen = genFile, !.generated = gen]
       IN  /\ privValFile' = pv
           /\ nextKey' = IF gen THEN nextKey + 1 ELSE nextKey
           /\ IF ~genFile.exists /\ ~saveOK
              THEN \* genDoc.SaveAs failed: panic(err)
                   /\ iRun' = [run EXCEPT !.outcome = "panic"]
                   /\ UNCHANGED <<genFile, chainDb, keystore>>
              ELSE /\ genFile' = IF genFile.exists THEN genFile ELSE GenesisDoc(flag, pv)
                   /\ IF ~setupOK
                      THEN \* ethUtils.Fatalf before the genesis block is written
                           /\ iRun' = [run EXCEPT !.outcome = "fatal", !.tmDone = TRUE]
                           /\ UNCHANGED <<chainDb, keystore>>
                      ELSE /\ chainDb' = TRUE
                           /\ IF ~mkdirOK
                              THEN /\ iRun' = [run EXCEPT !.outcome = "fatal", !.tmDone = TRUE]
                                   /\ UNCHANGED keystore
                              ELSE /\ keystore' = [n \in KeystoreNames |->
                                         SeedFile(keystore[n], keystoreFilesMap[n], createOK, written)]
                                   /\ iRun' = [run EXCEPT !.tmDone = TRUE,
                                                  !.outcome = IF createOK /\ ~closeOK
                                                              THEN "ErrClose" ELSE "nil"]
    /\ UNCHANGED <<stakeVars, queryVars, cmtVars>>

\* the operator removes the private validator file
RemovePrivValidatorFile ==
    /\ privValFile # <<>>
    /\ privValFile' = <<>>
    /\ iRun' = NoRun
    /\ UNCHANGED <<genFile, chainDb, keystore, nextKey>>
    /\ UNCHANGED <<stakeVars, queryVars, cmtVars>>

\* the operator removes the genesis file
RemoveGenesisFile ==
    /\ genFile.exists
    /\ genFile' = NoGenesis
    /\ iRun' = NoRun
    /\ UNCHANGED <<privValFile, chainDb, keystore, nextKey>>
    /\ UNCHANGED <<stakeVars, queryVars, cmtVars>>

\* the operator removes a keystore file
RemoveKeystoreFile(n) ==
    /\ keystore[n].exists
    /\ keystore' = [keystore EXCEPT ![n] = NoFile]
    /\ iRun' = NoRun
    /\ UNCHANGED <<privValFile, genFile, chainDb, nextKey>>
    /\ UNCHANGED <<stakeVars, queryVars, cmtVars>>

FsInit ==
    /\ privValFile = <<>>
    /\ genFile = NoGenesis
    /\ chainDb = FALSE
    /\ keystore = [n \in KeystoreNames |-> NoFile]
    /\ nextKey = 1
    /\ iRun = NoRun

(***************************************************************************)
(* Specifications of the stake submission part                             *)
(***************************************************************************)
InitSeqs == {None, U32(1), <<Limb - 1, Limb - 2>>, MaxU32}

ArgSequences == {Zero, U32(2)}

StakeInit ==
    /\ chainID = ""
    /\ seqStore \in {s \in [Addresses -> InitSeqs] : s["0"] = None /\ s["B"] = None}
    /\ unlocked = {}
    /\ unlockRes = "none"
    /\ call = [c \in Callers |-> IdleCall]
    /\ nCalls = 0

Init == StakeInit /\ QueryInit /\ CmtInit /\ FsInit

Next ==
    \/ \E m \in Methods, from \in FromStrings, pk \in PubKeyStrings,
          seq \in ArgSequences, pok \in BOOLEAN : Submit(1, m, from, pk, seq, pok)
    \/ \E rpcOK \in BOOLEAN : GetSequence(1, rpcOK)
    \/ WrapChain(1)
    \/ SignTx(1)
    \/ \E rpcOK \in BOOLEAN : BroadcastTx(1, rpcOK)
    \/ \E addr \in {"A", "B"}, pw \in BOOLEAN, d \in Durations : UnlockAccount(addr, pw, d)
    \/ \E addr \in Addresses : UnlockExpire(addr)
    \/ TendermintStarted

Spec == Init /\ [][Next]_vars

\* two RPC goroutines serving calls of one unlocked account, tendermint running
StakeInitConc ==
    /\ chainID = ChainName
    /\ seqStore \in {s \in [Addresses -> InitSeqs] : s["0"] = None /\ s["B"] = None}
    /\ unlocked = {"A"}
    /\ unlockRes = "true"
    /\ call = [c \in Callers |-> IdleCall]
    /\ nCalls = 0

InitConc == StakeInitConc /\ QueryInit /\ CmtInit /\ FsInit

NextConc ==
    \E c \in Callers :
        \/ \E m \in {"DeclareCandidacy", "AcceptSlot"}, seq \in ArgSequences :
               Submit(c, m, "0xA", "pk", seq, TRUE)
        \/ \E rpcOK \in BOOLEAN : GetSequence(c, rpcOK)
        \/ WrapChain(c)
        \/ SignTx(c)
        \/ \E rpcOK \in BOOLEAN : BroadcastTx(c, rpcOK)

SpecConc == InitConc /\ [][NextConc]_vars

\* the stake submission part at rest
StakeIdle ==
    /\ chainID = ""
    /\ seqStore = [a \in Addresses |-> None]
    /\ unlocked = {}
    /\ unlockRes = "none"
    /\ call = [c \in Callers |-> IdleCall]
    /\ nCalls = 0

InitQuery == StakeIdle /\ QueryInit /\ CmtInit /\ FsInit

NextQuery ==
    \/ \E m \in QueryMethods, arg \in QueryArgs, height \in 0..MaxHeight,
          respNil \in BOOLEAN, value \in QueryValues, rpcErr \in {"nil", "ErrRPC"} :
             Query(m, arg, height, respNil, value, rpcErr)
    \/ QueryNewBlock

SpecQuery == InitQuery /\ [][NextQuery]_vars

InitCmt == StakeIdle /\ QueryInit /\ CmtInit /\ FsInit

NextCmt ==
    \/ \E height \in 0..(MaxBlocks + 1) : GetBlock(height)
    \/ \E str \in HashStrings : GetTransaction(str)
    \/ \E height \in 0..(MaxBlocks + 1), index \in (0 - 2)..(MaxTxs + 1) :
             GetTransactionFromBlock(height, index)
    \/ \E n \in 0..MaxTxs : CmtNewBlock(n)

SpecCmt == InitCmt /\ [][NextCmt]_vars

InitInit == StakeIdle /\ QueryInit /\ CmtInit /\ FsInit

NextInit ==
    \/ \E flag \in ChainIDFlags, saveOK, setupOK, mkdirOK, createOK, closeOK \in BOOLEAN,
          written \in WriteCounts :
             InitFiles(flag, saveOK, setupOK, mkdirOK, createOK, written, closeOK)
    \/ RemovePrivValidatorFile
    \/ RemoveGenesisFile
    \/ \E n \in KeystoreNames : RemoveKeystoreFile(n)

SpecInit == InitInit /\ [][NextInit]_vars

(***************************************************************************)
(* Claims about the stake submission methods                               *)
(***************************************************************************)

\* the steps a call of this shape has to pass before the broadcast
Required(cl) ==
    (IF cl.method \in PubKeyMethods THEN {"pubkey"} ELSE {})
    \cup (IF cl.defaulted THEN {"sequence"} ELSE {})
    \cup {"chainid", "validate", "sign"}

\* C1: every stake submission call broadcasts at most once, only after
\* public-key parsing, sequence lookup, chain-id lookup, validation and signing
\* have all succeeded, and a call in which one of these steps failed has
\* returned an error with a nil result and has broadcast nothing.
C1_SubmissionOrder ==
    \A c \in Callers :
        LET cl == call[c]
        IN  /\ cl.nBroadcast <= 1
            /\ cl.nBroadcast = 1 => Required(cl) \subseteq cl.ok
            /\ cl.failed # "none" =>
                  /\ cl.pc = "done"
                  /\ cl.err # "nil"
                  /\ cl.result = "nil"
                  /\ cl.nBroadcast = 0

\* C2: a call whose signing step failed (the account manager has no wallet
\* for From, or the wallet refuses to sign) has returned a non-nil error and
\* has broadcast nothing.
C2_SignFailureReturned ==
    \A c \in Callers :
        call[c].failed = "sign" =>
            /\ call[c].pc = "done"
            /\ call[c].err # "nil"
            /\ call[c].nBroadcast = 0

\* the transaction of the call has been wrapped in the nonce layer
NonceWrapped(cl) == cl.tx.nonce # None

\* C6 as stated: with sequence 0 the nonce is the stored sequence plus one for
\* every stored uint32 value, and 1 when nothing is stored; an explicit
\* sequence is used unchanged without any query; the only signer is the actor
\* of the From address.
C6_DefaultSequenceAsStated ==
    \A c \in Callers :
        LET cl == call[c]
        IN  /\ (cl.defaulted /\ NonceWrapped(cl)) =>
                  cl.tx.nonce = (IF cl.seen = None THEN U32(1) ELSE MathSucc(cl.seen))
            /\ (~cl.defaulted /\ NonceWrapped(cl)) =>
                  (cl.tx.nonce = cl.sequence /\ ~cl.queried)
            /\ cl.tx.kind # "none" =>
                  /\ Len(cl.tx.signers) = 1
                  /\ cl.tx.signers[1] = [app |-> "sigs", address |-> HexToAddress(cl.from)]

\* C6 amended: with sequence 0 the nonce is the stored sequence plus one
\* modulo 2^32 (0 when the stored sequence is 2^32 - 1), and 1 when nothing is
\* stored; an explicit sequence is used unchanged without any query; the only
\* signer is the actor of the From address.
C6_DefaultSequence ==
    \A c \in Callers :
        LET cl == call[c]
        IN  /\ (cl.defaulted /\ NonceWrapped(cl)) =>
                  cl.tx.nonce = (IF cl.seen = None THEN U32(1)
                                 ELSE IF cl.seen = MaxU32 THEN Zero
                                 ELSE MathSucc(cl.seen))
            /\ (~cl.defaulted /\ NonceWrapped(cl)) =>
                  (cl.tx.nonce = cl.sequence /\ ~cl.queried)
            /\ cl.tx.kind # "none" =>
                  /\ Len(cl.tx.signers) = 1
                  /\ cl.tx.signers[1] = [app |-> "sigs", address |-> HexToAddress(cl.from)]

\* a default sequence read of the largest stored value wrapped to nonce 0
C6_Witness ==
    \E c \in Callers :
        /\ call[c].defaulted
        /\ call[c].seen = MaxU32
        /\ call[c].tx.nonce = Zero
        /\ call[c].pc = "done"

\* C7 as stated: while the chain id is empty every finished stake submission
\* call has returned the empty-chain-id error, has not signed and has not
\* broadcast; a chain-wrapped transaction carries the backend's chain id.
C7_EmptyChainIDAsStated ==
    \A c \in Callers :
        LET cl == call[c]
        IN  /\ (chainID = "" /\ cl.pc = "done") =>
                  /\ cl.err = "ErrEmptyChainID"
                  /\ cl.tx.sig = ""
                  /\ cl.nBroadcast = 0
            /\ cl.tx.chain # "" => cl.tx.chain = chainID

\* C7 amended: while the chain id is empty a stake submission call never
\* reaches signing or broadcasting, and a finished call has returned an error:
\* the empty-chain-id error, unless public-key parsing or the sequence lookup
\* failed first, in which case it is that step's error; a chain-wrapped
\* transaction carries the backend's chain id.
C7_EmptyChainID ==
    \A c \in Callers :
        LET cl == call[c]
        IN  /\ chainID = "" => cl.pc \notin {"signTx", "broadcast", "panicked"}
            /\ (chainID = "" /\ cl.pc = "done") =>
                  /\ cl.err = (CASE cl.failed = "pubkey" -> "ErrPubKey"
                                 [] cl.failed = "sequence" -> "ErrRPC"
                                 [] OTHER -> "ErrEmptyChainID")
                  /\ cl.tx.sig = ""
                  /\ cl.nBroadcast = 0
            /\ cl.tx.chain # "" => cl.tx.chain = chainID

\* a call got as far as the chain-id lookup while the chain id was empty
C7_Witness ==
    \E c \in Callers :
        /\ chainID = ""
        /\ call[c].pc = "done"
        /\ call[c].failed = "chainid"
        /\ call[c].err = "ErrEmptyChainID"

\* two finished calls that both broadcast a default-sequence transaction of
\* the same signer
BothBroadcastDefault(c, d) ==
    /\ c # d
    /\ call[c].pc = "done" /\ call[d].pc = "done"
    /\ call[c].nBroadcast = 1 /\ call[d].nBroadcast = 1
    /\ call[c].defaulted /\ call[d].defaulted
    /\ call[c].tx.signers = call[d].tx.signers

\* C9 as stated: under any interleaving two default-sequence calls of the
\* same From address broadcast transactions with distinct nonces.
C9_DistinctNoncesAsStated ==
    \A c, d \in Callers :
        BothBroadcastDefault(c, d) => call[c].tx.nonce # call[d].tx.nonce

\* C9 amended: two default-sequence calls of the same From address broadcast
\* transactions with distinct nonces when one call reads the sequence after
\* the other call's transaction has been committed.
C9_DistinctNonces ==
    \A c, d \in Callers :
        (BothBroadcastDefault(c, d) /\ d \in call[c].readAfter) =>
            call[c].tx.nonce # call[d].tx.nonce

\* one call read the sequence after the other's commit, and both broadcast
C9_Witness ==
    \E c, d \in Callers :
        /\ BothBroadcastDefault(c, d)
        /\ d \in call[c].readAfter
        /\ call[c].result = "CommitOK"

(***************************************************************************)
(* Claims about the stake query methods                                    *)
(***************************************************************************)

\* C3: a stake query call returns a non-nil result exactly when the ABCI
\* query returned no error and a non-empty value that deserializes; the result
\* then carries the height of the response and the deserialized value; the
\* client's error is returned as it is; an empty value or a nil response
\* without an error gives the no-data error; every error comes with a nil result.
C3_QueryResult ==
    LET q == qCall
        r == q.resp
        decodes == ReadData(q.method, r.value).ok
        good == q.queried /\ r.err = "nil" /\ ~r.isNil /\ Len(r.value) > 0 /\ decodes
    IN  q.method # "none" =>
            /\ ~q.result.isNil <=> good
            /\ good => /\ q.result.Height = r.height
                       /\ q.result.Data = ReadData(q.method, r.value).val
                       /\ q.err = "nil"
            /\ (q.queried /\ r.err # "nil") => q.err = r.err
            /\ (q.queried /\ r.err = "nil" /\ (r.isNil \/ Len(r.value) = 0)) =>
                   q.err = "ErrNoData"
            /\ q.err # "nil" => q.result.isNil
            /\ q.result.isNil => q.err # "nil"

\* a query at the latest height (request height 0) returned decoded data with
\* the height of the response
C3_Witness ==
    /\ qCall.method = "QueryValidators"
    /\ qCall.height = 0
    /\ ~qCall.result.isNil
    /\ qCall.result.Height = qHeight
    /\ qCall.result.Data = [items |-> <<5, 6>>]

(***************************************************************************)
(* Claims about block and transaction lookup                               *)
(***************************************************************************)

\* C8: GetTransactionFromBlock never reads the transaction list outside its
\* bounds: for an index outside 0 <= index < NumTxs of the fetched block it
\* returns an error without a transaction lookup, for an index inside it looks
\* up the transaction with the hash of the index-th transaction, and a failed
\* block fetch is returned without further calls.
C8_IndexInBounds ==
    LET cl == cCall
    IN  cl.op = "GetTransactionFromBlock" =>
            /\ cl.outcome = "returned"
            /\ cl.block = 0 => (cl.err = "ErrBlock" /\ cl.lookups = 0)
            /\ (cl.block # 0 /\ (cl.index < 0 \/ cl.index >= blocks[cl.block].NumTxs)) =>
                   (cl.err # "nil" /\ cl.lookups = 0)
            /\ (cl.block # 0 /\ cl.index >= 0 /\ cl.index < blocks[cl.block].NumTxs) =>
                   (cl.lookups = 1 /\ cl.tx = blocks[cl.block].Txs[cl.index + 1])

(***************************************************************************)
(* Claims about the init command                                           *)
(***************************************************************************)

\* C4: init never overwrites existing consensus-layer files: a private
\* validator file that existed before the run is left unchanged and no key is
\* generated, and a genesis file that existed before the run is left unchanged.
C4_NoOverwrite ==
    iRun.outcome # "none" =>
        /\ iRun.prePriv # <<>> => (privValFile = iRun.prePriv /\ ~iRun.generated)
        /\ iRun.preGen.exists => genFile = iRun.preGen

\* a run that found both files, as a second run after a successful first does
C4_Witness ==
    /\ iRun.outcome = "nil"
    /\ iRun.prePriv # <<>>
    /\ iRun.preGen.exists
    /\ privValFile = iRun.prePriv
    /\ genFile = iRun.preGen

\* C5: whenever init returns nil, every entry of keystoreFilesMap exists in
\* the keystore directory with exactly the mapped content.
C5_KeystoreSeeded ==
    iRun.outcome = "nil" =>
        \A n \in KeystoreNames :
            keystore[n].exists /\ keystore[n].content = keystoreFilesMap[n]

\* C10 as stated: after initTendermint completes both files exist and the
\* validator set of the genesis document names the public key of the private
\* validator file; a genesis file created by the run has the chain id of the
\* flag and exactly one validator, with that public key and power 10.
C10_GenesisNamesValidatorAsStated ==
    iRun.tmDone =>
        /\ privValFile # <<>>
        /\ genFile.exists
        /\ \E i \in 1..Len(genFile.Validators) : genFile.Validators[i].PubKey = privValFile[2]
        /\ ~iRun.preGen.exists =>
               /\ genFile.ChainID = iRun.flag
               /\ genFile.Validators = <<[PubKey |-> PubKeyOf(privValFile[1]), Power |-> 10]>>

\* C10 amended: after initTendermint completes both files exist; a genesis
\* file created by the run has the chain id of the flag and exactly one
\* validator, with the public key of the private validator file (loaded or
\* freshly generated) and power 10; a genesis file that existed before the run
\* is kept as it was, whatever validators it names.
C10_GenesisNamesValidator ==
    iRun.tmDone =>
        /\ privValFile # <<>>
        /\ genFile.exists
        /\ iRun.preGen.exists => genFile = iRun.preGen
        /\ ~iRun.preGen.exists =>
               /\ genFile.ChainID = iRun.flag
               /\ genFile.Validators = <<[PubKey |-> PubKeyOf(privValFile[1]), Power |-> 10]>>

\* a run that loaded an existing private validator and created the genesis file
C10_Witness ==
    /\ iRun.tmDone
    /\ iRun.prePriv # <<>>
    /\ ~iRun.preGen.exists
    /\ genFile.exists
    /\ genFile.ChainID = "test"

====
